---- MODULE Spec2Model ----
(***************************************************************************)
(* The external scanner of tree-sitter-patto (src/scanner.c): the          *)
(* indentation automaton that turns line starts into NEWLINE, INDENT and   *)
(* DEDENT tokens, and the byte encoding of its state.                      *)
(*                                                                         *)
(* The text the lexer still has to deliver is a sequence of cells, each a  *)
(* character and a repeat count (a run of tabs is one cell, every other    *)
(* character a cell of its own); the lexer's lookahead is the head of it.  *)
(***************************************************************************)
EXTENDS Integers, Sequences, FiniteSets, TLC

\* ------------------------------------------------------------------ bounds
\* Lines after the first one in a document drawn by Init.
MaxLines == 3
\* Tabs at the start of an ordinary line.
MaxTabs == 2
\* Bytes that may trail an encoded state in a buffer handed to deserialize.
MaxTrail == 2

\* --------------------------------------------------------------- constants
MAX_INDENT_DEPTH == 256

NEWLINE == "NEWLINE"
INDENT == "INDENT"
DEDENT == "DEDENT"
TokenType == {NEWLINE, INDENT, DEDENT}

\* Characters: '\n', '\r', '\t', the value 0 and any other character.
LF == "LF"
CR == "CR"
TAB == "TAB"
NUL == "NUL"
OTHER_CHAR == "X"

\* uint16_t: the width of one indent_stack entry.
UINT16 == 65536

\* ------------------------------------------------------------------- lexer
\* lexer->lookahead: the next character, 0 at the end of the input.
lookahead(text) == IF text = <<>> THEN NUL ELSE text[1].ch

\* lexer->eof(lexer)
eof(text) == text = <<>>

\* lexer->advance(lexer, true): one character on.
advance(text) ==
  IF text = <<>> THEN text
  ELSE IF text[1].n > 1 THEN <<[ch |-> text[1].ch, n |-> text[1].n - 1]>> \o Tail(text)
  ELSE Tail(text)

is_newline(character) == character = LF \/ character = CR

advance_newline(text) ==
  IF lookahead(text) = CR
    THEN LET t1 == advance(text)
         IN IF lookahead(t1) = LF THEN advance(t1) ELSE t1
    ELSE advance(text)

\* ----------------------------------------------------------------- scanner
\* The Scanner struct: indent_stack holds the entries below stack_size (the
\* code reads and writes no entry at or above it before writing it).
scanner_reset(s) ==
  [s EXCEPT !.indent_stack = <<0>>, !.stack_size = 1,
            !.dedent_count = 0, !.pending_indent = -1]

\* tree_sitter_patto_external_scanner_create: calloc, then scanner_reset.
scanner_create ==
  scanner_reset([indent_stack |-> <<>>, stack_size |-> 0,
                 dedent_count |-> 0, pending_indent |-> 0])

\* indent_stack[stack_size - 1]
StackTop(s) == s.indent_stack[s.stack_size]

\* scan, lines 120-121: a dedent is owed and DEDENT is admissible.
OwedDedentApplies(s, valid) == s.dedent_count > 0 /\ DEDENT \in valid

\* Variant: one DEDENT settles every owed dedent.
EmitOwedDedentAll(s) == [s EXCEPT !.dedent_count = 0]

\* lines 122-124
EmitOwedDedent(s) == [s EXCEPT !.dedent_count = @ - 1]

\* Variant: the pending indent is realized whether or not INDENT is admissible.
PendingIndentAppliesAny(s, valid) == s.pending_indent >= 0

\* lines 128-129
PendingIndentApplies(s, valid) == s.pending_indent >= 0 /\ INDENT \in valid

\* Variant: the push is not guarded by the depth limit.
RealizeIndentUnbounded(s) ==
  [s EXCEPT !.indent_stack = Append(@, s.pending_indent % UINT16),
            !.stack_size = @ + 1,
            !.pending_indent = -1]

\* Variant: the pending width is not cleared.
RealizeIndentKeepPending(s) ==
  IF s.stack_size < MAX_INDENT_DEPTH
    THEN [s EXCEPT !.indent_stack = Append(@, s.pending_indent % UINT16),
                   !.stack_size = @ + 1]
    ELSE s

\* lines 130-133: the push is skipped when the stack is full; the entry is
\* the pending width cut to 16 bits.
RealizeIndent(s) ==
  IF s.stack_size < MAX_INDENT_DEPTH
    THEN [s EXCEPT !.indent_stack = Append(@, s.pending_indent % UINT16),
                   !.stack_size = @ + 1,
                   !.pending_indent = -1]
    ELSE [s EXCEPT !.pending_indent = -1]

\* line 140
EofFlushApplies(s, valid) == DEDENT \in valid /\ s.stack_size > 1

\* Variant: DEDENT is reported but no level is popped.
EofFlushNoPop(s) == s

\* line 141
EofFlush(s) ==
  [s EXCEPT !.indent_stack = SubSeq(@, 1, s.stack_size - 1), !.stack_size = @ - 1]

\* line 148 (negated): the newline scan runs.
NewlineApplies(text, valid) == is_newline(lookahead(text)) /\ NEWLINE \in valid

\* lines 155-157
RECURSIVE SkipCarriageReturns(_)
SkipCarriageReturns(text) ==
  IF lookahead(text) = CR THEN SkipCarriageReturns(advance_newline(text)) ELSE text

\* lines 159-163: the loop over a run of tabs, one cell at a time.
RECURSIVE CountTabs(_, _)
CountTabs(text, indent_length) ==
  IF lookahead(text) = TAB
    THEN CountTabs(Tail(text), indent_length + text[1].n)
    ELSE [indent_length |-> indent_length, text |-> text]

\* Variant: a carriage return after the tabs does not make the line blank.
line_is_blank_no_cr(next_char) == next_char = LF \/ next_char = NUL

\* line 166
line_is_blank(next_char) == next_char = LF \/ next_char = CR \/ next_char = NUL

\* lines 173-174: the stack size the loop stops at, the highest level that is
\* the base or not above indent_length, every level over it being above.
KeptLevels(s, indent_length) ==
  CHOOSE k \in 1 .. s.stack_size :
    /\ k = 1 \/ ~(indent_length < s.indent_stack[k])
    /\ \A j \in (k + 1) .. s.stack_size : indent_length < s.indent_stack[j]

\* Variant: levels are popped without being counted as owed dedents.
PopLevelsUncounted(s, indent_length) ==
  LET keep == KeptLevels(s, indent_length)
  IN [s EXCEPT !.indent_stack = SubSeq(@, 1, keep), !.stack_size = keep]

\* lines 173-176: one owed dedent per level popped.
PopLevels(s, indent_length) ==
  LET keep == KeptLevels(s, indent_length)
  IN [s EXCEPT !.indent_stack = SubSeq(@, 1, keep),
               !.stack_size = keep,
               !.dedent_count = @ + (s.stack_size - keep)]

\* Variant: after popping, a width above the new top is not made pending.
AdjustIndentNoReindent(s, indent_length) ==
  LET current_indent == StackTop(s)
  IN IF indent_length > current_indent
       THEN [s EXCEPT !.pending_indent = indent_length]
       ELSE IF indent_length < current_indent
         THEN PopLevels(s, indent_length)
         ELSE s

\* lines 169-180
AdjustIndent(s, indent_length) ==
  LET current_indent == StackTop(s)
  IN IF indent_length > current_indent
       THEN [s EXCEPT !.pending_indent = indent_length]
       ELSE IF indent_length < current_indent
         THEN LET p == PopLevels(s, indent_length)
              IN IF indent_length > StackTop(p)
                   THEN [p EXCEPT !.pending_indent = indent_length]
                   ELSE p
         ELSE s

\* lines 152-183
ScanNewline(s, text) ==
  LET t1 == advance_newline(text)
      t2 == SkipCarriageReturns(t1)
      c == CountTabs(t2, 0)
      blank == line_is_blank(lookahead(c.text))
  IN [scanner |-> IF blank THEN s ELSE AdjustIndent(s, c.indent_length),
      text |-> c.text, ret |-> TRUE, symbol |-> NEWLINE, rule |-> "newline",
      blank |-> blank, width |-> c.indent_length]

\* Variant: at the end of the input NEWLINE is reported when admissible and
\* nothing is left to flush.
ScanEofNewline(s, text, valid) ==
  IF EofFlushApplies(s, valid)
    THEN [scanner |-> EofFlush(s), text |-> text, ret |-> TRUE,
          symbol |-> DEDENT, rule |-> "eof", blank |-> FALSE, width |-> 0]
    ELSE [scanner |-> s, text |-> text, ret |-> NEWLINE \in valid,
          symbol |-> IF NEWLINE \in valid THEN NEWLINE ELSE "",
          rule |-> "eof", blank |-> FALSE, width |-> 0]

\* Variant: at the end of the input a level is popped before DEDENT is looked
\* up in the admissible kinds.
ScanEofPopUnasked(s, text, valid) ==
  IF s.stack_size > 1
    THEN [scanner |-> EofFlush(s), text |-> text, ret |-> DEDENT \in valid,
          symbol |-> IF DEDENT \in valid THEN DEDENT ELSE "",
          rule |-> "eof", blank |-> FALSE, width |-> 0]
    ELSE [scanner |-> s, text |-> text, ret |-> FALSE,
          symbol |-> "", rule |-> "eof", blank |-> FALSE, width |-> 0]

\* lines 139-146
ScanEof(s, text, valid) ==
  IF EofFlushApplies(s, valid)
    THEN [scanner |-> EofFlush(s), text |-> text, ret |-> TRUE,
          symbol |-> DEDENT, rule |-> "eof", blank |-> FALSE, width |-> 0]
    ELSE [scanner |-> s, text |-> text, ret |-> FALSE,
          symbol |-> "", rule |-> "eof", blank |-> FALSE, width |-> 0]

\* Variant: the pending indent is looked at before the owed dedents.
scan_indent_first(s, text, valid) ==
  IF PendingIndentApplies(s, valid)
    THEN [scanner |-> RealizeIndent(s), text |-> text, ret |-> TRUE,
          symbol |-> INDENT, rule |-> "pending", blank |-> FALSE, width |-> 0]
  ELSE IF OwedDedentApplies(s, valid)
    THEN [scanner |-> EmitOwedDedent(s), text |-> text, ret |-> TRUE,
          symbol |-> DEDENT, rule |-> "owed", blank |-> FALSE, width |-> 0]
  ELSE IF eof(text)
    THEN ScanEof(s, text, valid)
  ELSE IF ~NewlineApplies(text, valid)
    THEN [scanner |-> s, text |-> text, ret |-> FALSE,
          symbol |-> "", rule |-> "none", blank |-> FALSE, width |-> 0]
  ELSE ScanNewline(s, text)

\* tree_sitter_patto_external_scanner_scan: the state and text after the
\* call, its return value and the result symbol it set ("" when it set none).
scan(s, text, valid) ==
  IF OwedDedentApplies(s, valid)
    THEN [scanner |-> EmitOwedDedent(s), text |-> text, ret |-> TRUE,
          symbol |-> DEDENT, rule |-> "owed", blank |-> FALSE, width |-> 0]
  ELSE IF PendingIndentApplies(s, valid)
    THEN [scanner |-> RealizeIndent(s), text |-> text, ret |-> TRUE,
          symbol |-> INDENT, rule |-> "pending", blank |-> FALSE, width |-> 0]
  ELSE IF eof(text)
    THEN ScanEof(s, text, valid)
  ELSE IF ~NewlineApplies(text, valid)
    THEN [scanner |-> s, text |-> text, ret |-> FALSE,
          symbol |-> "", rule |-> "none", blank |-> FALSE, width |-> 0]
  ELSE ScanNewline(s, text)

\* ------------------------------------------------------------- persistence
\* The bytes of a uint16_t, a uint32_t and an int32_t as memcpy lays them out
\* (least significant first; a negative int32_t in two's complement).
U16Bytes(v) == <<v % 256, (v \div 256) % 256>>

U32Bytes(v) ==
  <<v % 256, (v \div 256) % 256, (v \div 65536) % 256, (v \div 16777216) % 256>>

\* buffer[offset], the first byte at offset 0.
ByteAt(buf, offset) == buf[offset + 1]

ReadU16(buf, offset) == ByteAt(buf, offset) + 256 * ByteAt(buf, offset + 1)

ReadU32(buf, offset) ==
  ByteAt(buf, offset) + 256 * ByteAt(buf, offset + 1)
    + 65536 * ByteAt(buf, offset + 2) + 16777216 * ByteAt(buf, offset + 3)

ReadI32(buf, offset) ==
  LET top == ByteAt(buf, offset + 3)
  IN ByteAt(buf, offset) + 256 * ByteAt(buf, offset + 1)
       + 65536 * ByteAt(buf, offset + 2)
       + 16777216 * (IF top >= 128 THEN top - 256 ELSE top)

\* line 62: stack_size * sizeof(uint16_t) bytes of indent_stack.
StackBytes(stack, stack_size) ==
  [i \in 1 .. 2 * stack_size |-> U16Bytes(stack[(i + 1) \div 2])[2 - (i % 2)]]

\* Variant: the owed-dedent count is written in the place of the pending width.
serialize_dedent_twice(s) ==
  LET bytes == U32Bytes(s.stack_size) \o StackBytes(s.indent_stack, s.stack_size)
                 \o U32Bytes(s.dedent_count) \o U32Bytes(s.dedent_count)
  IN [buffer |-> bytes, size |-> Len(bytes)]

\* tree_sitter_patto_external_scanner_serialize: the bytes written and the
\* byte count returned.
serialize(s) ==
  LET bytes == U32Bytes(s.stack_size) \o StackBytes(s.indent_stack, s.stack_size)
                 \o U32Bytes(s.dedent_count) \o U32Bytes(s.pending_indent)
  IN [buffer |-> bytes, size |-> Len(bytes)]

\* Variant: a stack size of 0 is accepted.
SizeFieldBadUpper(stack_size) == stack_size > MAX_INDENT_DEPTH

\* line 90
SizeFieldBad(stack_size) == stack_size = 0 \/ stack_size > MAX_INDENT_DEPTH

\* tree_sitter_patto_external_scanner_deserialize: the instance after the call
\* and one past the highest buffer offset the call read.
deserialize(s, buf, len) ==
  LET s0 == scanner_reset(s)
  IN IF len = 0 THEN [scanner |-> s0, reads |-> 0]
     ELSE IF 0 + 4 > len THEN [scanner |-> s0, reads |-> 0]
     ELSE
       LET stack_size == ReadU32(buf, 0)
           s1 == [s0 EXCEPT !.stack_size = stack_size]
       IN IF SizeFieldBad(stack_size) THEN [scanner |-> scanner_reset(s1), reads |-> 4]
          ELSE
            LET stack_bytes == stack_size * 2
                size2 == 4 + stack_bytes
            IN IF 4 + stack_bytes > len THEN [scanner |-> scanner_reset(s1), reads |-> 4]
               ELSE
                 LET s2 == [s1 EXCEPT !.indent_stack =
                              [i \in 1 .. stack_size |-> ReadU16(buf, 4 + 2 * (i - 1))]]
                 IN IF size2 + 4 > len
                      THEN [scanner |-> scanner_reset(s2), reads |-> size2]
                      ELSE
                        LET s3 == [s2 EXCEPT !.dedent_count = ReadU32(buf, size2)]
                            size3 == size2 + 4
                        IN IF size3 + 4 > len
                             THEN [scanner |-> scanner_reset(s3), reads |-> size3]
                             ELSE [scanner |-> [s3 EXCEPT !.pending_indent = ReadI32(buf, size3)],
                                   reads |-> size3 + 4]

\* --------------------------------------------------------------- documents
Cell(ch, n) == [ch |-> ch, n |-> n]

\* The lines a document is made of: a terminator, leading tabs and the first
\* character after them ("none": nothing follows the tabs).  CR LF is a CR
\* line with nothing on it followed by an LF line.
Line(term, tabs, body) == [term |-> term, tabs |-> tabs, body |-> body]

LineKinds ==
  {Line(LF, w, OTHER_CHAR) : w \in 0 .. MaxTabs}
    \cup {Line(LF, 0, "none"), Line(LF, 1, "none"), Line(LF, 1, NUL)}
    \cup {Line(CR, 0, "none"), Line(CR, 1, OTHER_CHAR)}
    \cup {Line(LF, UINT16, OTHER_CHAR)}

Cells(l) ==
  <<Cell(l.term, 1)>>
    \o (IF l.tabs > 0 THEN <<Cell(TAB, l.tabs)>> ELSE <<>>)
    \o (IF l.body = "none" THEN <<>> ELSE <<Cell(l.body, 1)>>)

RECURSIVE Texts(_)
Texts(k) ==
  IF k = 0 THEN {<<>>}
  ELSE LET shorter == Texts(k - 1)
       IN shorter \cup {Cells(l) \o t : l \in LineKinds, t \in shorter}

\* Documents of up to MaxLines lines after an empty first line.
Documents == Texts(MaxLines)

\* A staircase of n lines: line k starts with k tabs.
Staircase(n) ==
  [i \in 1 .. 3 * n |->
     IF i % 3 = 1 THEN Cell(LF, 1)
     ELSE IF i % 3 = 2 THEN Cell(TAB, (i + 1) \div 3)
     ELSE Cell(OTHER_CHAR, 1)]

\* Documents nested up to the depth limit, to it, and beyond it.
DeepDocuments ==
  { Staircase(n) \o t :
      n \in (MAX_INDENT_DEPTH - 1) .. (MAX_INDENT_DEPTH + 1), t \in Texts(1) }

\* ------------------------------------------------------------------- state
VARIABLES
  scanner,        \* the Scanner instance
  input,          \* the text the lexer has not delivered yet
  result_symbol,  \* lexer->result_symbol
  op,             \* the last operation: "create", "scan", "advance", ...
  valid_symbols,  \* the admissible kinds of the last scan call
  matched,        \* the last scan call's return value
  rule,           \* the branch of scan that decided the last call
  blank,          \* line_is_blank of the last newline scan
  width,          \* indent_length of the last newline scan
  consumed,       \* cells the last scan call consumed
  document,       \* the whole text, where the host of the run records it
  last_char,      \* the final character of the text, once consumed ("" before)
  nIndent,        \* INDENT tokens reported so far
  nDedent,        \* DEDENT tokens reported so far
  nFull,          \* INDENT tokens reported while the stack was full
  eofNewlines,    \* NEWLINE tokens reported by calls made at end of input
  eofDedents,     \* DEDENT tokens reported by the end-of-input branch
  due,            \* DEDENT calls still to come for the levels the last line closed (-1: none)
  owing,          \* the same, counting the dedents already owed before that line
  zrun,           \* matches that consumed nothing since the cursor last moved
  zbound,         \* ZeroWidthBound of the state in which the cursor last moved
                  \* (these four where the host of the run keeps the count)
  tokens,         \* the tokens reported so far, where the host of the run records them
  line_width,     \* tabs of the last line landed on if it was not blank (-1 otherwise)
  same_width,     \* the line just landed on has the tabs of the line before it
  buffer,         \* the bytes the host holds of a serialized state
  length,         \* the byte count the host holds with them
  restored,       \* a second instance, the target of deserialize
  reads,          \* how far into the buffer deserialize read
  phase           \* "run", "saved", "restored"

lexvars == <<input, result_symbol>>
callvars == <<op, valid_symbols, matched, rule, blank, width, consumed>>
histvars == <<document, last_char, nIndent, nDedent, nFull, eofNewlines, eofDedents>>
runvars == <<due, owing, zrun, zbound>>
fullvars == <<tokens, line_width, same_width>>
savevars == <<buffer, length, restored, reads, phase>>
vars == <<scanner, lexvars, callvars, histvars, runvars, fullvars, savevars>>

\* The most tokens scan can report in a row without consuming input: the
\* owed dedents, the pending indent, and a flush of every level.
ZeroWidthBound(s) ==
  s.dedent_count + (IF s.pending_indent >= 0 THEN 1 ELSE 0) + s.stack_size

\* tree_sitter_patto_external_scanner_create, then the host's first text.
InitWith(docs) ==
  /\ scanner = scanner_create
  /\ input \in docs
  /\ result_symbol = ""
  /\ op = "create"
  /\ valid_symbols = {}
  /\ matched = FALSE
  /\ rule = "none"
  /\ blank = FALSE
  /\ width = 0
  /\ consumed = 0
  /\ last_char = ""
  /\ nIndent = 0
  /\ nDedent = 0
  /\ nFull = 0
  /\ eofNewlines = 0
  /\ eofDedents = 0
  /\ due = -1
  /\ owing = -1
  /\ zrun = 0
  /\ zbound = ZeroWidthBound(scanner_create)
  /\ tokens = <<>>
  /\ line_width = -1
  /\ same_width = FALSE
  /\ buffer = <<>>
  /\ length = 0
  /\ restored = scanner_create
  /\ reads = 0
  /\ phase = "run"

\* No record is kept of the whole text.
Init == InitWith(Documents) /\ document = <<>>

\* One call of scan with the admissible kinds `valid`.
Scan(valid) ==
  LET r == scan(scanner, input, valid)
      used == Len(input) - Len(r.text)
      symbol == IF r.symbol = "" THEN result_symbol ELSE r.symbol
      count(kind) == IF r.ret /\ symbol = kind THEN 1 ELSE 0
  IN /\ scanner' = r.scanner
     /\ input' = r.text
     /\ result_symbol' = symbol
     /\ op' = "scan"
     /\ valid_symbols' = valid
     /\ matched' = r.ret
     /\ rule' = r.rule
     /\ blank' = r.blank
     /\ width' = r.width
     /\ consumed' = used
     /\ last_char' = IF used > 0 /\ eof(r.text) THEN input[used].ch ELSE last_char
     /\ nIndent' = nIndent + count(INDENT)
     /\ nDedent' = nDedent + count(DEDENT)
     /\ nFull' = nFull + (IF scanner.stack_size = MAX_INDENT_DEPTH THEN count(INDENT) ELSE 0)
     /\ eofNewlines' = eofNewlines + (IF eof(input) THEN count(NEWLINE) ELSE 0)
     /\ eofDedents' = eofDedents + (IF r.rule = "eof" THEN count(DEDENT) ELSE 0)
     /\ UNCHANGED <<document, savevars>>

\* The count a host keeps of a scan call: the DEDENT calls to come after a
\* line that closed levels, and the matches that consumed nothing.
Count ==
  LET closed == scanner.stack_size - scanner'.stack_size
      after(n) == IF DEDENT \in valid_symbols' /\ n >= 0 THEN n - 1 ELSE -1
  IN /\ due' = IF rule' = "newline"
                  THEN (IF closed >= 1 THEN closed ELSE -1)
                  ELSE after(due)
     /\ owing' = IF rule' = "newline"
                    THEN (IF closed >= 1 THEN scanner.dedent_count + closed ELSE -1)
                    ELSE after(owing)
     /\ zrun' = IF consumed' > 0 THEN 0 ELSE IF matched' THEN zrun + 1 ELSE zrun
     /\ zbound' = IF consumed' > 0 THEN ZeroWidthBound(scanner') ELSE zbound

\* The same count when the host takes a cell itself.
CountAdvance ==
  /\ due' = -1
  /\ owing' = -1
  /\ zrun' = 0
  /\ zbound' = ZeroWidthBound(scanner)

\* A host that keeps neither the count nor a record of the tokens.
ScanStep ==
  (\E valid \in SUBSET TokenType : Scan(valid)) /\ UNCHANGED <<runvars, fullvars>>

\* The host lexes a token of its own grammar: it takes the cell at the cursor.
HostAdvance ==
  /\ ~eof(input)
  /\ input' = Tail(input)
  /\ last_char' = IF eof(Tail(input)) THEN input[1].ch ELSE last_char
  /\ op' = "advance"
  /\ valid_symbols' = {}
  /\ matched' = FALSE
  /\ rule' = "none"
  /\ blank' = FALSE
  /\ width' = 0
  /\ consumed' = 0
  /\ UNCHANGED <<scanner, result_symbol, document, nIndent, nDedent, nFull, eofNewlines, eofDedents, savevars>>

HostStep == HostAdvance /\ UNCHANGED <<runvars, fullvars>>

Next == ScanStep \/ HostStep

Spec == Init /\ [][Next]_vars

\* The host of a full scan: every kind admissible at every boundary, a token
\* of its own only where the scanner reported no match, until the scanner
\* reports no match at the end of the input.
Done == op = "scan" /\ ~matched /\ eof(input) /\ valid_symbols = TokenType

\* The host's record of a call: the token reported and where, and the width
\* of the line a newline scan landed on.
Record ==
  /\ tokens' = IF matched'
                 THEN Append(tokens, [symbol |-> result_symbol', left |-> Len(input')])
                 ELSE tokens
  /\ line_width' = IF rule' # "newline" THEN line_width
                     ELSE IF line_is_blank(lookahead(input')) THEN -1
                     ELSE width'
  /\ same_width' = IF rule' # "newline" THEN same_width
                     ELSE ~line_is_blank(lookahead(input')) /\ width' = line_width

FullScan == ~Done /\ Scan(TokenType) /\ Count /\ Record

FullAdvance ==
  /\ op = "scan" /\ ~matched /\ HostAdvance /\ CountAdvance
  /\ same_width' = FALSE
  /\ UNCHANGED <<tokens, line_width>>

\* The text of lines with the given tab widths: the first line starts the
\* text, the last one has no terminator.
WidthsText(widths) ==
  [i \in 1 .. 3 * Len(widths) |->
     IF i % 3 = 1 THEN Cell(LF, 1)
     ELSE IF i % 3 = 2 THEN Cell(TAB, widths[(i + 1) \div 3])
     ELSE Cell(OTHER_CHAR, 1)]

\* Texts scanned besides the drawn ones: lines of widths 0, 2, 4, 4, 1, 0;
\* lines whose widths 2, UINT16, 1 leave the stack <<0, 2, 0, 1>>, then a line
\* of width 0; and the staircase that fills the stack, its last line repeated.
WidthsExample == <<Cell(OTHER_CHAR, 1)>> \o WidthsText(<<2, 4, 4, 1>>) \o <<Cell(LF, 1), Cell(OTHER_CHAR, 1)>>

WrappedExample == WidthsText(<<2, UINT16, 1>>) \o <<Cell(LF, 1), Cell(OTHER_CHAR, 1)>>

FullStackExample == Staircase(MAX_INDENT_DEPTH) \o WidthsText(<<MAX_INDENT_DEPTH>>)

ExampleDocuments ==
  {WidthsExample, WidthsExample \o <<Cell(LF, 1)>>, WrappedExample, FullStackExample}

InitFull == InitWith(Documents \cup DeepDocuments \cup ExampleDocuments) /\ document = input

NextFull == FullScan \/ FullAdvance

SpecFull == InitFull /\ [][NextFull]_vars

\* ------------------------------------------------- the host's saved states
\* Lines that open and close levels, one of them wider than 16 bits.
PlainLineKinds ==
  {Line(LF, w, OTHER_CHAR) : w \in 0 .. MaxTabs} \cup {Line(LF, UINT16, OTHER_CHAR)}

RECURSIVE PlainTexts(_)
PlainTexts(k) ==
  IF k = 0 THEN {<<>>}
  ELSE LET shorter == PlainTexts(k - 1)
       IN shorter \cup {Cells(l) \o t : l \in PlainLineKinds, t \in shorter}

\* The host saves the state of the instance.
Serialize ==
  /\ phase = "run"
  /\ LET r == serialize(scanner)
     IN buffer' = r.buffer /\ length' = r.size
  /\ phase' = "saved"
  /\ UNCHANGED <<scanner, lexvars, callvars, histvars, runvars, fullvars, restored, reads>>

\* The host loads the saved bytes into the second instance, whatever that
\* instance held.
Deserialize ==
  /\ phase = "saved"
  /\ LET r == deserialize(restored, buffer, length)
     IN restored' = r.scanner /\ reads' = r.reads
  /\ phase' = "restored"
  /\ UNCHANGED <<scanner, lexvars, callvars, histvars, runvars, fullvars, buffer, length>>

\* The host drops the saved bytes and goes on scanning.
Discard ==
  /\ phase = "restored"
  /\ buffer' = <<>> /\ length' = 0 /\ reads' = 0
  /\ phase' = "run"
  /\ UNCHANGED <<scanner, lexvars, callvars, histvars, runvars, fullvars, restored>>

InitPersist == InitWith(PlainTexts(MaxLines)) /\ document = <<>>

NextPersist == (phase = "run" /\ Next) \/ Serialize \/ Deserialize \/ Discard

SpecPersist == InitPersist /\ [][NextPersist]_vars

\* ------------------------------------------------ scanning on a full stack
\* The scanner after the staircase of MAX_INDENT_DEPTH - 1 lines, every INDENT
\* accepted: the stack is full.
FullStack ==
  [indent_stack |-> [i \in 1 .. MAX_INDENT_DEPTH |-> i - 1],
   stack_size |-> MAX_INDENT_DEPTH, dedent_count |-> 0, pending_indent |-> -1]

\* Lines as wide as the top of the full stack or a little narrower, and one
\* wider than 16 bits.
DeepLineKinds ==
  {Line(LF, MAX_INDENT_DEPTH - 1 - d, OTHER_CHAR) : d \in 0 .. MaxTabs}
    \cup {Line(LF, UINT16, OTHER_CHAR)}

DeepTexts ==
  {<<>>} \cup {Cells(l) : l \in DeepLineKinds}
    \cup {Cells(l) \o Cells(k) : l \in DeepLineKinds, k \in DeepLineKinds}

\* The host is past the text of the staircase's last line; up to two more
\* lines follow, and any kinds are admissible from here on.
InitDeep ==
  /\ scanner = FullStack
  /\ input \in DeepTexts
  /\ result_symbol = INDENT
  /\ op = "advance"
  /\ valid_symbols = {}
  /\ matched = FALSE
  /\ rule = "none"
  /\ blank = FALSE
  /\ width = 0
  /\ consumed = 0
  /\ document = <<>>
  /\ last_char = IF input = <<>> THEN OTHER_CHAR ELSE ""
  /\ nIndent = MAX_INDENT_DEPTH - 1
  /\ nDedent = 0
  /\ nFull = 0
  /\ eofNewlines = 0
  /\ eofDedents = 0
  /\ due = -1
  /\ owing = -1
  /\ zrun = 0
  /\ zbound = ZeroWidthBound(FullStack)
  /\ tokens = <<>>
  /\ line_width = -1
  /\ same_width = FALSE
  /\ buffer = <<>>
  /\ length = 0
  /\ restored = scanner_create
  /\ reads = 0
  /\ phase = "run"

\* A host that keeps the count.
DeepScan == (\E valid \in SUBSET TokenType : Scan(valid)) /\ Count /\ UNCHANGED fullvars

DeepAdvance == HostAdvance /\ CountAdvance /\ UNCHANGED fullvars

NextDeep == DeepScan \/ DeepAdvance

SpecDeep == InitDeep /\ [][NextDeep]_vars

\* ----------------------------------------------- deserialize on any buffer
\* Buffers: a stack-size field, stack entries, an owed-dedent count, a pending
\* width and trailing bytes, whether or not the field agrees with the entries.
SizeFields == {0, 1, 2, MAX_INDENT_DEPTH, MAX_INDENT_DEPTH + 1, UINT16 + 1}

SampleStacks ==
  {<<>>, <<0>>, <<0, 1>>, <<3, 0>>, [i \in 1 .. MAX_INDENT_DEPTH |-> i - 1]}

SampleTails == {<<0, -1>>, <<2, 1>>}

\* The unsigned fields deserialize may read from the buffer are below 2^31
\* (the range of the checker's integers).
Decodable(buf) ==
  Len(buf) >= 4 =>
    /\ ByteAt(buf, 3) < 128
    /\ LET n == ReadU32(buf, 0)
       IN (~SizeFieldBad(n) /\ Len(buf) >= 4 + 2 * n + 4) => ByteAt(buf, 4 + 2 * n + 3) < 128

Buffers ==
  { b \in { U32Bytes(n) \o StackBytes(st, Len(st)) \o U32Bytes(t[1]) \o U32Bytes(t[2])
              \o [i \in 1 .. k |-> 170] :
              n \in SizeFields, st \in SampleStacks, t \in SampleTails, k \in 0 .. MaxTrail } :
      Decodable(b) }

\* States the target instance may hold before the call.
PriorStates ==
  {scanner_create,
   [indent_stack |-> <<0, 1>>, stack_size |-> 2, dedent_count |-> 1, pending_indent |-> 2]}

InitBuffers ==
  /\ scanner = scanner_create
  /\ input = <<>> /\ document = <<>>
  /\ result_symbol = ""
  /\ op = "create" /\ valid_symbols = {} /\ matched = FALSE /\ rule = "none"
  /\ blank = FALSE /\ width = 0 /\ consumed = 0
  /\ last_char = "" /\ nIndent = 0 /\ nDedent = 0 /\ nFull = 0
  /\ eofNewlines = 0 /\ eofDedents = 0
  /\ due = -1 /\ owing = -1 /\ zrun = 0 /\ zbound = ZeroWidthBound(scanner_create)
  /\ tokens = <<>> /\ line_width = -1 /\ same_width = FALSE
  /\ buffer \in Buffers
  /\ length \in 0 .. Len(buffer)
  /\ restored \in PriorStates
  /\ reads = 0
  /\ phase = "saved"

SpecDeser == InitBuffers /\ [][Deserialize]_vars

\* ================================================================== claims
AtBase(s) == s.stack_size = 1 /\ s.dedent_count = 0 /\ s.pending_indent = -1

\* C1: a scan call that reports a match reports a kind that is a member of
\* the admissible set passed to that call.
C1_AdmissibleKind == (op = "scan" /\ matched) => result_symbol \in valid_symbols

\* An INDENT reported while a dedent is owed and only INDENT is admissible.
C1_Witness ==
  /\ op = "scan" /\ matched /\ result_symbol = INDENT
  /\ valid_symbols = {INDENT} /\ scanner.dedent_count > 0

\* C2 as stated: after a full scan with every kind admissible, as many DEDENT
\* as INDENT tokens were reported and the scanner is back at the base level.
C2_Original == Done => (nDedent = nIndent /\ AtBase(scanner))

\* C2 as amended: after a full scan with every kind admissible, the DEDENT
\* tokens reported are as many as the INDENT tokens reported, less the INDENT
\* tokens reported while the stack already held MAX_INDENT_DEPTH entries, and
\* the scanner is back at the base level.
C2_Balanced == Done => (nIndent - nDedent = nFull /\ AtBase(scanner))

\* A finished scan with owed and end-of-input dedents and no full stack.
C2_Witness ==
  /\ Done /\ nFull = 0 /\ nIndent >= 2 /\ nDedent = nIndent
  /\ eofDedents >= 1 /\ eofDedents < nDedent

\* C3: at the end of the input, with nothing owed and nothing pending, a call
\* with DEDENT admissible reports one DEDENT and pops one level while the
\* stack is above the base, and once the stack is at the base every call
\* reports no match and changes nothing, whatever is admissible.
C3_EofCall ==
  (op' = "scan" /\ eof(input) /\ scanner.dedent_count = 0 /\ scanner.pending_indent = -1)
    => /\ input' = input
       /\ scanner.stack_size > 1 /\ DEDENT \in valid_symbols'
            => /\ matched' /\ result_symbol' = DEDENT
               /\ scanner'.stack_size = scanner.stack_size - 1
               /\ scanner'.indent_stack = SubSeq(scanner.indent_stack, 1, scanner.stack_size - 1)
               /\ scanner'.dedent_count = 0 /\ scanner'.pending_indent = -1
       /\ scanner.stack_size = 1 => (~matched' /\ scanner' = scanner)

C3_EofFlush == [][C3_EofCall]_vars

\* Two levels flushed at the end of the input, then no match at the base.
C3_Witness ==
  /\ op = "scan" /\ ~matched /\ eof(input) /\ AtBase(scanner)
  /\ eofDedents >= 2 /\ valid_symbols # {}

\* C4 as stated: when the text does not end in a line terminator, the calls
\* made at the end of the input report exactly one NEWLINE.
C4_Original == (Done /\ last_char \notin {"", LF, CR}) => eofNewlines = 1

\* C4 as amended: no call made at the end of the input reports NEWLINE; such a
\* call consumes nothing and reports DEDENT, INDENT or no match.
C4_NoNewlineAtEof ==
  /\ eofNewlines = 0
  /\ (op = "scan" /\ eof(input) /\ consumed = 0)
       => (IF matched THEN result_symbol \in {INDENT, DEDENT} ELSE TRUE)

\* A finished scan of a text that ends in an ordinary character.
C4_Witness == Done /\ last_char = OTHER_CHAR /\ eofDedents >= 1

\* C5: serialize followed by deserialize with the returned byte count, into an
\* instance in any state, gives the same stack size, the same entries below
\* it, the same owed-dedent count and the same pending width.
C5_RoundTrip ==
  phase = "restored" =>
    /\ restored.stack_size = scanner.stack_size
    /\ \A i \in 1 .. scanner.stack_size : restored.indent_stack[i] = scanner.indent_stack[i]
    /\ restored.dedent_count = scanner.dedent_count
    /\ restored.pending_indent = scanner.pending_indent

\* A state with two levels, an owed dedent and a pending width, restored.
C5_Witness ==
  /\ phase = "restored" /\ restored = scanner
  /\ scanner.stack_size >= 2 /\ scanner.dedent_count >= 1 /\ scanner.pending_indent >= 0

\* The length of the encoding of a state with n stack entries.
EncodedLength(n) == 4 + 2 * n + 4 + 4

\* A buffer that is empty, cut before the end of its last field, or whose
\* stack-size field is 0 or above MAX_INDENT_DEPTH.
Malformed(buf, len) ==
  \/ len < 4
  \/ LET n == ReadU32(buf, 0)
     IN n = 0 \/ n > MAX_INDENT_DEPTH \/ len < EncodedLength(n)

\* C6: deserialize of a malformed buffer leaves the default state, whatever the
\* instance held, and reads no byte at an offset >= length.
C6_MalformedResets ==
  (phase = "restored" /\ Malformed(buffer, length))
    => (restored = scanner_create /\ reads <= length)

\* A buffer cut one byte before the end of its last field, loaded into an
\* instance that held another state.
C6_Witness ==
  /\ phase = "restored" /\ length >= 4
  /\ ReadU32(buffer, 0) = 2
  /\ length = EncodedLength(2) - 1
  /\ reads = EncodedLength(2) - 4
  /\ restored = scanner_create

\* C7 as stated: whenever the length differs from the encoded length the
\* stack-size field implies, shorter or longer, deserialize leaves the default
\* state.
C7_Original ==
  (phase = "restored" /\ length >= 4 /\ ~SizeFieldBad(ReadU32(buffer, 0))
     /\ length # EncodedLength(ReadU32(buffer, 0)))
    => restored = scanner_create

\* C8: the stack holds between 1 and MAX_INDENT_DEPTH entries, the first is 0
\* and the entries are strictly increasing.
C8_StackShape ==
  /\ 1 <= scanner.stack_size /\ scanner.stack_size <= MAX_INDENT_DEPTH
  /\ Len(scanner.indent_stack) = scanner.stack_size
  /\ scanner.indent_stack[1] = 0
  /\ \A i \in 1 .. scanner.stack_size - 1 :
       scanner.indent_stack[i] < scanner.indent_stack[i + 1]

\* C9: a newline scan that lands on a blank line (after the terminator and the
\* tabs comes a line terminator or the end of the input) leaves the scanner
\* unchanged.
C9_BlankCall ==
  (op' = "scan" /\ rule' = "newline" /\ (eof(input') \/ is_newline(lookahead(input'))))
    => scanner' = scanner

C9_BlankLine == [][C9_BlankCall]_vars

\* A blank line with fewer tabs than the open level, landed on with an indent
\* still pending.
C9_Witness ==
  /\ op = "scan" /\ rule = "newline" /\ (eof(input) \/ is_newline(lookahead(input)))
  /\ scanner.stack_size > 1 /\ width < StackTop(scanner)
  /\ scanner.pending_indent > width

\* C10: the stack never holds more than MAX_INDENT_DEPTH entries; a pending
\* indent realized on a full stack reports INDENT and clears the pending width
\* without pushing; and the full scan of the staircase of MAX_INDENT_DEPTH
\* lines reports one DEDENT fewer than INDENT.
C10_FullRealize ==
  (op' = "scan" /\ rule' = "pending" /\ scanner.stack_size = MAX_INDENT_DEPTH)
    => /\ matched' /\ result_symbol' = INDENT
       /\ scanner'.pending_indent = -1
       /\ scanner'.indent_stack = scanner.indent_stack
       /\ scanner'.stack_size = MAX_INDENT_DEPTH

C10_Counts ==
  /\ scanner.stack_size <= MAX_INDENT_DEPTH
  /\ (Done /\ document = Staircase(MAX_INDENT_DEPTH))
       => (nIndent = MAX_INDENT_DEPTH /\ nDedent = MAX_INDENT_DEPTH - 1)

Kinds(toks) == [i \in DOMAIN toks |-> toks[i].symbol]

\* The cells left unread when each recorded token was reported.
Lefts(toks) == [i \in DOMAIN toks |-> toks[i].left]

\* C11 as stated: the lines of widths 0, 2, 4, 4, 1, 0 give NEWLINE INDENT,
\* NEWLINE INDENT, NEWLINE, NEWLINE DEDENT DEDENT INDENT, NEWLINE, and then
\* three DEDENT tokens at the end of the input.
C11_Original ==
  (Done /\ document = WidthsExample)
    => /\ Kinds(tokens) = <<NEWLINE, INDENT, NEWLINE, INDENT, NEWLINE,
                            NEWLINE, DEDENT, DEDENT, INDENT, NEWLINE,
                            DEDENT, DEDENT, DEDENT>>
       /\ eofDedents = 3

\* C11 as amended: the lines of widths 0, 2, 4, 4, 1, 0 give NEWLINE INDENT at
\* the second line, NEWLINE INDENT at the third, NEWLINE at the fourth,
\* NEWLINE DEDENT DEDENT INDENT at the fifth and NEWLINE DEDENT at the sixth;
\* at the end of the input the stack is at the base already, no DEDENT is
\* reported there and the call reports no match.
C11_Stream ==
  (Done /\ document = WidthsExample)
    => /\ Kinds(tokens) = <<NEWLINE, INDENT, NEWLINE, INDENT, NEWLINE,
                            NEWLINE, DEDENT, DEDENT, INDENT, NEWLINE, DEDENT>>
       /\ Lefts(tokens) = <<12, 12, 9, 9, 6, 3, 3, 3, 3, 1, 1>>
       /\ eofDedents = 0
       /\ AtBase(scanner)

\* The example text scanned to its end.
C11_Witness ==
  /\ Done /\ document = WidthsExample
  /\ nIndent = 3 /\ nDedent = 3 /\ Len(tokens) = 11

\* C12: every scan call applies the first rule that applies, in the order:
\* an owed dedent with DEDENT admissible gives DEDENT; a pending indent with
\* INDENT admissible gives INDENT; the end of the input gives a flush DEDENT
\* or no match; a line terminator with NEWLINE admissible gives the newline
\* scan; anything else no match.  The calls the first three rules decide
\* consume no input.
C12_Call ==
  op' = "scan" =>
    IF scanner.dedent_count > 0 /\ DEDENT \in valid_symbols'
      THEN /\ matched' /\ result_symbol' = DEDENT /\ input' = input
           /\ scanner' = [scanner EXCEPT !.dedent_count = @ - 1]
    ELSE IF scanner.pending_indent >= 0 /\ INDENT \in valid_symbols'
      THEN /\ matched' /\ result_symbol' = INDENT /\ input' = input
           /\ scanner'.pending_indent = -1
           /\ scanner'.dedent_count = scanner.dedent_count
    ELSE IF eof(input)
      THEN /\ input' = input
           /\ IF DEDENT \in valid_symbols' /\ scanner.stack_size > 1
                THEN /\ matched' /\ result_symbol' = DEDENT
                     /\ scanner'.stack_size = scanner.stack_size - 1
                ELSE ~matched' /\ scanner' = scanner
    ELSE IF is_newline(lookahead(input)) /\ NEWLINE \in valid_symbols'
      THEN matched' /\ result_symbol' = NEWLINE /\ Len(input') < Len(input)
    ELSE ~matched' /\ input' = input /\ scanner' = scanner

C12_Priority == [][C12_Call]_vars

\* At the end of the input, with every kind admissible and levels open, the
\* pending INDENT is delivered before any flush DEDENT.
C12_Witness ==
  /\ op = "scan" /\ rule = "pending" /\ eof(input) /\ valid_symbols = TokenType
  /\ scanner.stack_size > 2 /\ nDedent >= 1 /\ eofDedents = 0

\* The levels above the base whose entry is greater than w.
Above(s, w) == {i \in 2 .. s.stack_size : s.indent_stack[i] > w}

\* C13: a newline scan that lands on a line that is not blank, of w tabs:
\* when w is less than the stack top it pops exactly the entries greater than
\* w, adds their number to the owed-dedent count and makes w pending if and
\* only if w is greater than the new top; when w equals the top it changes
\* nothing; when w is greater than the top it changes the pending width only.
C13_Call ==
  (op' = "scan" /\ rule' = "newline" /\ ~line_is_blank(lookahead(input')))
    => LET w == width'
           top == StackTop(scanner)
           kept == scanner.stack_size - Cardinality(Above(scanner, w))
       IN IF w < top
            THEN /\ Above(scanner, w) = (kept + 1) .. scanner.stack_size
                 /\ scanner'.stack_size = kept
                 /\ scanner'.indent_stack = SubSeq(scanner.indent_stack, 1, kept)
                 /\ scanner'.dedent_count = scanner.dedent_count + Cardinality(Above(scanner, w))
                 /\ scanner'.pending_indent =
                      IF w > scanner.indent_stack[kept] THEN w ELSE scanner.pending_indent
          ELSE IF w = top THEN scanner' = scanner
          ELSE scanner' = [scanner EXCEPT !.pending_indent = w]

C13_Adjust == [][C13_Call]_vars

\* C14 as stated: after a line that closes k >= 1 levels, while DEDENT is
\* admissible, the next k scan calls each report DEDENT, consume nothing and
\* take one from the owed-dedent count, and the call after them reports no
\* DEDENT; the owed-dedent count is never below 0.
C14_OriginalCall ==
  /\ scanner.dedent_count >= 0
  /\ (op' = "scan" /\ DEDENT \in valid_symbols' /\ due > 0)
       => /\ matched' /\ result_symbol' = DEDENT /\ input' = input
          /\ scanner'.dedent_count = scanner.dedent_count - 1
  /\ (op' = "scan" /\ DEDENT \in valid_symbols' /\ due = 0)
       => ~(matched' /\ result_symbol' = DEDENT)

C14_Original == [][C14_OriginalCall]_vars

\* C14 as amended: after a line that closes k >= 1 levels while m dedents were
\* still owed (m = 0 when DEDENT was admissible on every earlier call), while
\* DEDENT is admissible, the next k + m scan calls each report DEDENT, consume
\* nothing and take one from the owed-dedent count, and the call after them
\* reports no DEDENT; the owed-dedent count is never below 0.
C14_Call ==
  /\ scanner.dedent_count >= 0
  /\ (op' = "scan" /\ DEDENT \in valid_symbols' /\ owing > 0)
       => /\ matched' /\ result_symbol' = DEDENT /\ input' = input
          /\ scanner'.dedent_count = scanner.dedent_count - 1
  /\ (op' = "scan" /\ DEDENT \in valid_symbols' /\ owing = 0)
       => ~(matched' /\ result_symbol' = DEDENT)

C14_OwedRun == [][C14_Call]_vars

\* Two DEDENTs delivered one per call for a line that closed two levels of
\* the full stack, then a call with DEDENT admissible that reported none.
C14_Witness ==
  /\ op = "scan" /\ owing = -1 /\ due = -1 /\ DEDENT \in valid_symbols
  /\ zrun = 2 /\ nDedent = 2 /\ eofDedents = 0 /\ ~eof(input) /\ ~matched
  /\ scanner.stack_size = MAX_INDENT_DEPTH - 2 /\ scanner.dedent_count = 0

\* The cells a call consumed: the text before the call less the text after.
Eaten(before, after) == SubSeq(before, 1, Len(before) - Len(after))

\* C15: a call that reports NEWLINE consumes one line terminator (a line
\* feed, a carriage return, or a carriage return and a line feed), then
\* carriage returns only, then tabs only, and so never a second line feed.
C15_Call ==
  (op' = "scan" /\ matched' /\ result_symbol' = NEWLINE)
    => LET eaten == Eaten(input, input')
           feeds == {i \in DOMAIN eaten : eaten[i].ch = LF}
           first == IF eaten[1].ch = CR /\ 2 \in feeds THEN 2 ELSE 1
       IN /\ Len(eaten) >= 1
          /\ eaten[1].ch \in {LF, CR}
          /\ feeds \subseteq {first}
          /\ \A i \in (first + 1) .. Len(eaten) : eaten[i].ch \in {CR, TAB}
          /\ \A i \in (first + 1) .. Len(eaten) : \A j \in (i + 1) .. Len(eaten) :
               eaten[i].ch = TAB => eaten[j].ch = TAB

C15_OneTerminator == [][C15_Call]_vars

\* C16: whatever the buffer and the length, the state deserialize leaves has
\* between 1 and MAX_INDENT_DEPTH entries, the first of them 0, the entries
\* strictly increasing, and a pending width that is none or above the top.
C16_Restored ==
  phase = "restored" =>
    /\ 1 <= restored.stack_size /\ restored.stack_size <= MAX_INDENT_DEPTH
    /\ restored.indent_stack[1] = 0
    /\ \A i \in 1 .. restored.stack_size - 1 :
         restored.indent_stack[i] < restored.indent_stack[i + 1]
    /\ restored.pending_indent = -1 \/ restored.pending_indent > StackTop(restored)
    /\ restored.dedent_count >= 0

\* C17: a scan call that reports no match has consumed nothing and has left
\* the stack, its size, the owed-dedent count and the pending width as they
\* were.
C17_Call == (op' = "scan" /\ ~matched') => (input' = input /\ scanner' = scanner)

C17_NoMatchFrame == [][C17_Call]_vars

\* No match on ordinary text with NEWLINE admissible, while a dedent is owed
\* and an indent is pending.
C17_Witness ==
  /\ op = "scan" /\ ~matched /\ valid_symbols = {NEWLINE}
  /\ ~eof(input) /\ ~is_newline(lookahead(input))
  /\ scanner.dedent_count > 0 /\ scanner.pending_indent >= 0

\* C18: the DEDENT tokens reported never outnumber the INDENT tokens: the
\* INDENTs less the DEDENTs are at least the levels open above the base plus
\* the dedents owed, and exactly that while no INDENT was reported on a full
\* stack.
C18_Depth ==
  LET open == (scanner.stack_size - 1) + scanner.dedent_count
  IN /\ nDedent <= nIndent
     /\ nIndent - nDedent >= open
     /\ nFull = 0 => nIndent - nDedent = open

\* After an INDENT on the full stack, a dedent delivered and one still owed, the
\* INDENTs exceed what is open and owed.
C18_Witness ==
  /\ nFull = 1 /\ nDedent >= 1 /\ scanner.dedent_count >= 1
  /\ nIndent - nDedent = scanner.stack_size + scanner.dedent_count

\* The state SpecDeep starts in, reached by the full scan of a staircase.
C18_StartReached ==
  /\ scanner = FullStack /\ op = "advance" /\ result_symbol = INDENT
  /\ nIndent = MAX_INDENT_DEPTH - 1 /\ nDedent = 0 /\ nFull = 0
  /\ zbound = ZeroWidthBound(FullStack) /\ zrun = 0 /\ due = -1 /\ owing = -1
  /\ last_char = "" /\ eofNewlines = 0 /\ eofDedents = 0
  /\ Len(input) = 3

\* What the state still allows of matches that consume nothing.
Measure(s) ==
  s.dedent_count + (IF s.pending_indent >= 0 THEN 2 ELSE 0) + (s.stack_size - 1)

\* C19: at a cursor position, the end of the input included, the calls that
\* report a match without consuming input are never more than the owed
\* dedents, one pending indent and the stack size of the state in which the
\* cursor came there; every such call lowers what the state still allows of
\* them, which is never negative nor above that bound.
C19_Call ==
  /\ (op' = "scan" /\ matched' /\ input' = input) => Measure(scanner') < Measure(scanner)
  /\ 0 <= Measure(scanner') /\ Measure(scanner') <= ZeroWidthBound(scanner')
  /\ zrun' <= zbound'

C19_BoundedRun == [][C19_Call]_vars

\* At the end of the input the bound is attained: the owed dedents, the
\* pending indent and a flush of every level, then no match.
C19_Witness ==
  /\ op = "scan" /\ ~matched /\ eof(input) /\ valid_symbols = TokenType
  /\ zrun = zbound /\ zrun > MAX_INDENT_DEPTH - MaxTabs
  /\ nIndent >= MAX_INDENT_DEPTH /\ nFull = 0

\* C20: every kind being admissible, when a line that is not blank has the
\* tab width of the line before it, not blank either, the calls made at its
\* start report NEWLINE only, no INDENT and no DEDENT.
C20_EqualWidth == (op = "scan" /\ matched /\ same_width) => result_symbol = NEWLINE

\* The same on the text that fills the stack and repeats its last line.
C20_EqualWidthFullStack == document = FullStackExample => C20_EqualWidth

====
